---- MODULE Spec2Model ----
(***************************************************************************)
(* Model of mmeson's option editing engine: the option store               *)
(* (options.py), the editor widgets, rows and list (tui.py), the global    *)
(* key handler and main loop (tui.py) and the exit action                  *)
(* (meson_interface.py).                                                   *)
(*                                                                         *)
(* Python strings are sequences of one-character strings, so that          *)
(* splitting, comparing, formatting and parsing are computed.  Python      *)
(* values are tagged records: [t |-> "str", s], [t |-> "bool", b],         *)
(* [t |-> "int", i], [t |-> "list", l], [t |-> "tuple", l].                *)
(***************************************************************************)
EXTENDS Integers, Sequences, FiniteSets, TLC

VARIABLES
    pc,           \* "start", "loaded", "loop", "exited", "done", "crashed"
    input,        \* the list parse_buildoptions hands to set_options
    options,      \* OptionsManager.options
    loaded,       \* history: the store right after set_options
    rows,         \* OptionList.option_rows
    focus,        \* walker focus position (0-based), None when there is none
    footer,       \* index last shown by Footer.option_list_callback
    exit_action,  \* MesonManager.exit_action
    edits,        \* number of keys forwarded to an edit buffer so far
    signals,      \* number of 'changed' signals emitted so far
    calls,        \* external meson invocations, in order
    out,          \* messages printed by run_exit_action
    rc,           \* value returned by run_exit_action
    return_code,  \* value returned by main_loop to cli.main
    ended_by,     \* history: what ended loop.run(): "none", "key", "interrupt"
    call,         \* a function applied on its own: its name and arguments
    result        \* what that application returned

vars == <<pc, input, options, loaded, rows, focus, footer, exit_action, edits,
          signals, calls, out, rc, return_code, ended_by, call, result>>

\* Python None where an int is expected
None == -1

\* no function applied on its own
NoCall == [fn |-> "none"]

-----------------------------------------------------------------------------
(* Bounds *)

\* keys that change an edit buffer or its cursor, per session
MaxEdits == 2
\* 'changed' signals per session
MaxCommits == 3
\* options in a list handed to set_options when only sorting is checked
MaxSortLen == 3
\* the largest index, of either sign, looked up in a store
MaxIndex == 4
\* entries of an array value formatted or edited on its own
MaxListLen == 2
\* characters of such an entry
MaxEntryLen == 2

-----------------------------------------------------------------------------
(* Python strings and values *)

\* Code point of a character; str comparison orders by code point.
Ord(c) ==
    CASE c = " " -> 32  [] c = "'" -> 39  [] c = "," -> 44
      [] c = "0" -> 48  [] c = "1" -> 49  [] c = "2" -> 50
      [] c = ":" -> 58  [] c = "[" -> 91  [] c = "]" -> 93
      [] c = "a" -> 97  [] c = "b" -> 98  [] c = "d" -> 100 [] c = "j" -> 106
      [] c = "p" -> 112 [] c = "s" -> 115 [] c = "t" -> 116
      [] c = "u" -> 117 [] c = "w" -> 119 [] c = "x" -> 120
      [] c = "y" -> 121

RECURSIVE StrLess(_, _)
\* a < b on str
StrLess(a, b) ==
    IF b = <<>> THEN FALSE
    ELSE IF a = <<>> THEN TRUE
    ELSE IF Ord(a[1]) # Ord(b[1]) THEN Ord(a[1]) < Ord(b[1])
    ELSE StrLess(Tail(a), Tail(b))

StrV(s) == [t |-> "str", s |-> s]
BoolV(b) == [t |-> "bool", b |-> b]
IntV(i) == [t |-> "int", i |-> i]
ListV(l) == [t |-> "list", l |-> l]
TupleV(l) == [t |-> "tuple", l |-> l]

RECURSIVE Split(_, _)
\* str.split(sep) for a one-character separator
Split(s, sep) ==
    IF \A i \in 1..Len(s) : s[i] # sep THEN <<s>>
    ELSE LET k == CHOOSE i \in 1..Len(s) :
                      s[i] = sep /\ \A j \in 1..(i-1) : s[j] # sep
         IN <<SubSeq(s, 1, k-1)>> \o Split(SubSeq(s, k+1, Len(s)), sep)

-----------------------------------------------------------------------------
(* options.py: Option and OptionsManager *)

MesonType == {"string", "boolean", "combo", "integer", "array"}
MesonSection == {"core", "backend", "base", "compiler", "directory", "user", "test"}
MesonMachine == {"any", "host", "build"}

NoChoices == [present |-> FALSE, list |-> <<>>]
Choices(l) == [present |-> TRUE, list |-> l]

\* Option.__init__
Option(name, value, value_type, choices, section, machine) ==
    [name |-> name, value |-> value, type |-> value_type, choices |-> choices,
     section |-> section, machine |-> machine, modified |-> FALSE]

\* the sections ranked in the order the enum declares them
section_map_declared ==
    [s \in MesonSection |->
        CASE s = "core" -> 1 [] s = "backend" -> 2 [] s = "base" -> 3
          [] s = "compiler" -> 4 [] s = "directory" -> 5 [] s = "user" -> 6
          [] s = "test" -> 7]

section_map ==
    [s \in MesonSection |->
        CASE s = "user" -> 1 [] s = "base" -> 2 [] s = "compiler" -> 3
          [] s = "core" -> 4 [] s = "directory" -> 5 [] s = "test" -> 6
          [] s = "backend" -> 7]

\* the key function of set_options
sorter(option) ==
    LET splitted == Split(option.name, ":")
        subproject == IF Len(splitted) = 1 THEN <<>> ELSE splitted[1]
        option_name == IF Len(splitted) = 1 THEN splitted[1] ELSE splitted[2]
    IN <<subproject, section_map[option.section], option_name>>

\* tuple comparison k1 <= k2 of two sorter keys
KeyLeq(k1, k2) ==
    IF k1[1] # k2[1] THEN StrLess(k1[1], k2[1])
    ELSE IF k1[2] # k2[2] THEN k1[2] < k2[2]
    ELSE k1[3] = k2[3] \/ StrLess(k1[3], k2[3])

RECURSIVE sorted(_)
\* sorted(options, key=sorter): stable, ascending
sorted(s) ==
    IF s = <<>> THEN <<>>
    ELSE LET front == sorted(SubSeq(s, 1, Len(s) - 1))
             x == s[Len(s)]
             n == Cardinality({i \in 1..Len(front) :
                                  KeyLeq(sorter(front[i]), sorter(x))})
         IN SubSeq(front, 1, n) \o <<x>> \o SubSeq(front, n + 1, Len(front))

\* every option is returned, modified or not
get_modified_options_all(opts) == opts

\* OptionsManager.get_modified_options
get_modified_options(opts) == SelectSeq(opts, LAMBDA o : o.modified)

\* the option written is moved to the front of the store
set_modified_front(opts, index, value) ==
    <<[opts[index + 1] EXCEPT !.modified = TRUE, !.value = value]>>
        \o SubSeq(opts, 1, index) \o SubSeq(opts, index + 2, Len(opts))

\* the flag is flipped on every write
set_modified_toggle(opts, index, value) ==
    [opts EXCEPT ![index + 1] = [@ EXCEPT !.modified = ~@, !.value = value]]

\* the first option is written whatever the index
set_modified_first(opts, index, value) ==
    [opts EXCEPT ![1] = [@ EXCEPT !.modified = TRUE, !.value = value]]

\* the value is stored and the option is not marked
set_modified_value_only(opts, index, value) ==
    [opts EXCEPT ![index + 1] = [@ EXCEPT !.value = value]]

\* OptionsManager.set_modified
set_modified(opts, index, value) ==
    [opts EXCEPT ![index + 1] = [@ EXCEPT !.modified = TRUE, !.value = value]]

\* a set_options that rejects two options of the same name
set_options_unique(opts) ==
    IF \E i, j \in 1..Len(opts) : i # j /\ opts[i].name = opts[j].name
    THEN [ok |-> FALSE, options |-> <<>>]
    ELSE [ok |-> TRUE, options |-> sorted(opts)]

\* OptionsManager.set_options: it never raises
set_options(opts) == [ok |-> TRUE, options |-> sorted(opts)]

\* a lookup that accepts the positions 0 .. len-1 only
get_option_checked(opts, index) ==
    IF index >= Len(opts) \/ index < 0 THEN [ok |-> FALSE, v |-> None]
    ELSE [ok |-> TRUE, v |-> opts[index + 1]]

\* OptionsManager.get_option: self.options[index]; a negative index counts
\* from the end, ok is FALSE when IndexError is raised
get_option(opts, index) ==
    IF index >= Len(opts) \/ index < -Len(opts) THEN [ok |-> FALSE, v |-> None]
    ELSE IF index >= 0 THEN [ok |-> TRUE, v |-> opts[index + 1]]
    ELSE [ok |-> TRUE, v |-> opts[Len(opts) + index + 1]]

RECURSIVE IntToStr(_)
\* str(i) for a non-negative int
IntToStr(i) ==
    LET d == <<"0", "1", "2", "3", "4", "5", "6", "7", "8", "9">>[(i % 10) + 1]
    IN IF i < 10 THEN <<d>> ELSE Append(IntToStr(i \div 10), d)

RECURSIVE PyRepr(_)
RECURSIVE ReprJoin(_)
\* ', '.join(repr(e) for e in l)
ReprJoin(l) ==
    IF l = <<>> THEN <<>>
    ELSE IF Len(l) = 1 THEN PyRepr(l[1])
    ELSE PyRepr(l[1]) \o <<",", " ">> \o ReprJoin(Tail(l))

\* repr(v)
PyRepr(v) ==
    CASE v.t = "str" ->
            IF (\E i \in 1..Len(v.s) : v.s[i] = "'")
               /\ (\A i \in 1..Len(v.s) : v.s[i] # "\"")
            THEN <<"\"">> \o v.s \o <<"\"">>
            ELSE <<"'">> \o v.s \o <<"'">>
      [] v.t = "bool" -> IF v.b THEN <<"T", "r", "u", "e">>
                         ELSE <<"F", "a", "l", "s", "e">>
      [] v.t = "int" -> IntToStr(v.i)
      [] v.t = "list" -> <<"[">> \o ReprJoin(v.l) \o <<"]">>
      [] v.t = "tuple" ->
            IF Len(v.l) = 1 THEN <<"(">> \o PyRepr(v.l[1]) \o <<",", ")">>
            ELSE <<"(">> \o ReprJoin(v.l) \o <<")">>

\* str.lower
Lower(s) ==
    [i \in 1..Len(s) |-> CASE s[i] = "T" -> "t" [] s[i] = "F" -> "f" [] OTHER -> s[i]]

\* str(v)
PyStr(v) == IF v.t = "str" THEN v.s ELSE PyRepr(v)

\* the values a for loop over v visits; ok is FALSE when v is not iterable
PyIter(v) ==
    CASE v.t \in {"list", "tuple"} -> [ok |-> TRUE, l |-> v.l]
      [] v.t = "str" -> [ok |-> TRUE, l |-> [i \in 1..Len(v.s) |-> StrV(<<v.s[i]>>)]]
      [] OTHER -> [ok |-> FALSE, l |-> <<>>]

RECURSIVE ArrayEntries(_)
\* the loop of value_as_string over the entries of an array value
ArrayEntries(l) ==
    IF l = <<>> THEN <<>>
    ELSE <<"'">> \o PyStr(l[1]) \o <<"'", ",">> \o ArrayEntries(Tail(l))

\* Option.value_as_string; ok is FALSE when it raises
value_as_string(option) ==
    CASE option.type = "string" ->
            [ok |-> TRUE, s |-> <<"\"">> \o PyStr(option.value) \o <<"\"">>]
      [] option.type = "boolean" ->
            [ok |-> TRUE, s |-> Lower(PyRepr(option.value))]
      [] option.type = "combo" -> [ok |-> TRUE, s |-> option.value.s]
      [] option.type = "integer" -> [ok |-> TRUE, s |-> PyStr(option.value)]
      [] option.type = "array" ->
            LET it == PyIter(option.value)
                ret == <<"[">> \o ArrayEntries(it.l)
            IN [ok |-> it.ok, s |-> SubSeq(ret, 1, Len(ret) - 1) \o <<"]">>]

-----------------------------------------------------------------------------
(* ast.literal_eval, as used by ArrayEdit.get_value, on buffers over the   *)
(* characters space ' , [ ] 0 1 2 and the letters a c g q C G Q, none of   *)
(* which is a string prefix or part of a numeric literal                   *)

Digits == {"0", "1", "2"}

ParseFail == [ok |-> FALSE, v |-> IntV(0), i |-> 0]

RECURSIVE SkipWs(_, _)
SkipWs(s, i) == IF i <= Len(s) /\ s[i] = " " THEN SkipWs(s, i + 1) ELSE i

\* s[i:i+3] is a triple quote
TripleAt(s, i) == i + 2 <= Len(s) /\ s[i] = "'" /\ s[i+1] = "'" /\ s[i+2] = "'"

\* one string literal starting at the quote s[i]
ParseStr(s, i) ==
    IF TripleAt(s, i)
    THEN LET ends == {k \in (i+3)..Len(s) : TripleAt(s, k)}
         IN IF ends = {} THEN ParseFail
            ELSE LET k == CHOOSE e \in ends : \A f \in ends : e <= f
                 IN [ok |-> TRUE, v |-> SubSeq(s, i + 3, k - 1), i |-> k + 3]
    ELSE LET ends == {k \in (i+1)..Len(s) : s[k] = "'"}
         IN IF ends = {} THEN ParseFail
            ELSE LET k == CHOOSE e \in ends : \A f \in ends : e <= f
                 IN [ok |-> TRUE, v |-> SubSeq(s, i + 1, k - 1), i |-> k + 1]

RECURSIVE ParseStrings(_, _, _)
\* adjacent string literals are concatenated
ParseStrings(s, i, acc) ==
    LET r == ParseStr(s, i)
    IN IF ~r.ok THEN ParseFail
       ELSE LET k == SkipWs(s, r.i)
            IN IF k <= Len(s) /\ s[k] = "'"
               THEN ParseStrings(s, k, acc \o r.v)
               ELSE [ok |-> TRUE, v |-> StrV(acc \o r.v), i |-> r.i]

RECURSIVE DigitsEnd(_, _)
DigitsEnd(s, i) == IF i <= Len(s) /\ s[i] \in Digits THEN DigitsEnd(s, i + 1) ELSE i

RECURSIVE StrToInt(_)
\* int(text) for a non-empty digit string
StrToInt(d) ==
    IF Len(d) = 1 THEN Ord(d[1]) - 48
    ELSE 10 * StrToInt(SubSeq(d, 1, Len(d) - 1)) + (Ord(d[Len(d)]) - 48)

\* a decimal integer literal starting at the digit s[i]
ParseInt(s, i) ==
    LET e == DigitsEnd(s, i)
        d == SubSeq(s, i, e - 1)
    IN IF Len(d) > 1 /\ d[1] = "0" /\ \E k \in 1..Len(d) : d[k] # "0"
       THEN ParseFail
       ELSE [ok |-> TRUE, v |-> IntV(StrToInt(d)), i |-> e]

RECURSIVE ParseAtom(_, _)
RECURSIVE ParseItems(_, _, _, _)
\* comma-separated items up to the closing bracket (top = FALSE) or up to
\* the end of the text (top = TRUE)
ParseItems(s, i, acc, top) ==
    LET j == SkipWs(s, i)
    IN IF top /\ j > Len(s) THEN [ok |-> TRUE, v |-> acc, i |-> j]
       ELSE IF ~top /\ j <= Len(s) /\ s[j] = "]"
       THEN [ok |-> TRUE, v |-> acc, i |-> j + 1]
       ELSE LET a == ParseAtom(s, j)
                k == SkipWs(s, a.i)
            IN IF ~a.ok THEN ParseFail
               ELSE IF k <= Len(s) /\ s[k] = ","
               THEN ParseItems(s, k + 1, Append(acc, a.v), top)
               ELSE IF top
               THEN IF k > Len(s)
                    THEN [ok |-> TRUE, v |-> Append(acc, a.v), i |-> k]
                    ELSE ParseFail
               ELSE IF k <= Len(s) /\ s[k] = "]"
               THEN [ok |-> TRUE, v |-> Append(acc, a.v), i |-> k + 1]
               ELSE ParseFail

\* a list display, a string or an integer starting at s[i]
ParseAtom(s, i) ==
    IF i > Len(s) THEN ParseFail
    ELSE IF s[i] = "["
    THEN LET r == ParseItems(s, i + 1, <<>>, FALSE)
         IN IF r.ok THEN [ok |-> TRUE, v |-> ListV(r.v), i |-> r.i] ELSE ParseFail
    ELSE IF s[i] = "'" THEN ParseStrings(s, i, <<>>)
    ELSE IF s[i] \in Digits THEN ParseInt(s, i)
    ELSE ParseFail

\* ast.literal_eval(text); ok is FALSE when it raises
literal_eval(text) ==
    LET j == SkipWs(text, 1)
        a == ParseAtom(text, j)
        k == SkipWs(text, a.i)
    IN IF ~a.ok THEN [ok |-> FALSE, v |-> IntV(0)]
       ELSE IF k > Len(text) THEN [ok |-> TRUE, v |-> a.v]
       ELSE IF text[k] = ","
       THEN LET r == ParseItems(text, k + 1, <<a.v>>, TRUE)
            IN IF r.ok THEN [ok |-> TRUE, v |-> TupleV(r.v)]
               ELSE [ok |-> FALSE, v |-> IntV(0)]
       ELSE [ok |-> FALSE, v |-> IntV(0)]

-----------------------------------------------------------------------------
(* tui.py: the MesonEdit widgets *)

Widget(kind) ==
    [kind |-> kind, activated |-> FALSE, text |-> <<>>, edit_pos |-> 0,
     state |-> FALSE, choice_index |-> 0, choices |-> <<>>]

\* StringEdit.__init__: urwid.Edit('', value, edit_pos=0)
StringEdit(value) == [Widget("string") EXCEPT !.text = value.s]

\* BooleanEdit.__init__
BooleanEdit(init_state) == [Widget("boolean") EXCEPT !.state = init_state.b]

\* choices.index(init_choice), None when it raises ValueError
IndexOf(choices, init_choice) ==
    LET hits == {i \in 1..Len(choices) : choices[i] = init_choice}
    IN IF hits = {} THEN None
       ELSE (CHOOSE i \in hits : \A j \in hits : i <= j) - 1

\* ComboEdit.__init__
ComboEdit(init_choice, choices) ==
    [Widget("combo") EXCEPT !.choice_index = IndexOf(choices, init_choice.s),
                            !.choices = choices]

\* IntegerEdit.__init__: urwid.IntEdit('', value), cursor at the end
IntegerEdit(value) ==
    [Widget("integer") EXCEPT !.text = IntToStr(value.i),
                              !.edit_pos = Len(IntToStr(value.i))]

\* an array editor filled with the quoted entries, without the brackets
ArrayEdit_entries(value) == [Widget("array") EXCEPT !.text = ArrayEntries(value.l)]

\* ArrayEdit.__init__: StringEdit.__init__(str(value), 'array')
ArrayEdit(value) == [Widget("array") EXCEPT !.text = PyStr(value)]

\* get_value of the MesonEdit subclasses; ok is FALSE when it raises
get_value(w) ==
    CASE w.kind = "string" -> [ok |-> TRUE, v |-> StrV(w.text)]
      [] w.kind = "boolean" -> [ok |-> TRUE, v |-> BoolV(w.state)]
      [] w.kind = "combo" ->
            IF w.choice_index \in 0..(Len(w.choices) - 1)
            THEN [ok |-> TRUE, v |-> StrV(w.choices[w.choice_index + 1])]
            ELSE [ok |-> FALSE, v |-> StrV(<<>>)]
      [] w.kind = "integer" ->
            [ok |-> TRUE, v |-> IntV(IF w.text = <<>> THEN 0 ELSE StrToInt(w.text))]
      [] w.kind = "array" -> literal_eval(w.text)

\* the keys the model presses
CharKeys == {"q", "Q", "c", "C", "g", "G", " ", "a", "1", "0", "[", "]", "'", ","}
Keys == CharKeys \cup {"enter", "up", "down", "left", "backspace"}

\* urwid's command map: the keys bound to ACTIVATE
ActivateKeys == {" ", "enter"}

\* urwid.Edit.valid_char and urwid.IntEdit.valid_char
valid_char(w, key) ==
    /\ key \in CharKeys
    /\ w.kind = "integer" => key \in {"0", "1", "2", "3", "4", "5", "6", "7", "8", "9"}

\* urwid.Edit.keypress on the wrapped widget: handled is FALSE when the
\* key is returned
EditKeypress(w, key) ==
    IF valid_char(w, key)
    THEN [w |-> [w EXCEPT !.text = SubSeq(w.text, 1, w.edit_pos) \o <<key>>
                                     \o SubSeq(w.text, w.edit_pos + 1, Len(w.text)),
                          !.edit_pos = w.edit_pos + 1],
          handled |-> TRUE]
    ELSE IF key = "backspace" /\ w.edit_pos > 0
    THEN [w |-> [w EXCEPT !.text = SubSeq(w.text, 1, w.edit_pos - 1)
                                     \o SubSeq(w.text, w.edit_pos + 1, Len(w.text)),
                          !.edit_pos = w.edit_pos - 1],
          handled |-> TRUE]
    ELSE IF key = "left" /\ w.edit_pos > 0
    THEN [w |-> [w EXCEPT !.edit_pos = w.edit_pos - 1], handled |-> TRUE]
    ELSE [w |-> w, handled |-> FALSE]

RECURSIVE TrimZeros(_)
\* urwid.IntEdit.keypress: trim leading zeros left of the cursor
TrimZeros(w) ==
    IF w.edit_pos > 0 /\ w.text # <<>> /\ w.text[1] = "0"
    THEN TrimZeros([w EXCEPT !.edit_pos = w.edit_pos - 1, !.text = Tail(w.text)])
    ELSE w

\* self.original_widget.keypress(size, key) of StringEdit and IntegerEdit
OriginalKeypress(w, key) ==
    LET r == EditKeypress(w, key)
    IN IF w.kind = "integer" /\ r.handled THEN TrimZeros(r.w) ELSE r.w

\* a keypress that leaves the arrow keys to the list while editing
StringEdit_keypress_arrows(w, key) ==
    IF key = "enter"
    THEN LET activated == ~w.activated
             edit_pos == IF activated THEN Len(w.text) ELSE 0
         IN [w |-> [w EXCEPT !.activated = activated, !.edit_pos = edit_pos],
             key |-> "None", emit |-> ~activated]
    ELSE IF w.activated /\ key \notin {"up", "down"}
    THEN [w |-> OriginalKeypress(w, key), key |-> "None", emit |-> FALSE]
    ELSE [w |-> w, key |-> key, emit |-> FALSE]

\* a keypress that hands a key on after forwarding it to the buffer
StringEdit_keypress_passes(w, key) ==
    IF key = "enter"
    THEN LET activated == ~w.activated
             edit_pos == IF activated THEN Len(w.text) ELSE 0
         IN [w |-> [w EXCEPT !.activated = activated, !.edit_pos = edit_pos],
             key |-> "None", emit |-> ~activated]
    ELSE IF w.activated
    THEN [w |-> OriginalKeypress(w, key), key |-> key, emit |-> FALSE]
    ELSE [w |-> w, key |-> key, emit |-> FALSE]

\* StringEdit.keypress (inherited by ArrayEdit): the widget after the key,
\* key when it is returned unhandled (None otherwise), and whether
\* 'changed' is emitted
StringEdit_keypress(w, key) ==
    IF key = "enter"
    THEN LET activated == ~w.activated
             edit_pos == IF activated THEN Len(w.text) ELSE 0
         IN [w |-> [w EXCEPT !.activated = activated, !.edit_pos = edit_pos],
             key |-> "None", emit |-> ~activated]
    ELSE IF w.activated
    THEN [w |-> OriginalKeypress(w, key), key |-> "None", emit |-> FALSE]
    ELSE [w |-> w, key |-> key, emit |-> FALSE]

\* a keypress that returns what the wrapped IntEdit returns
IntegerEdit_keypress_returns(w, key) ==
    IF key = "enter"
    THEN LET activated == ~w.activated
         IN [w |-> [w EXCEPT !.activated = activated],
             key |-> "None", emit |-> ~activated]
    ELSE IF w.activated
    THEN [w |-> OriginalKeypress(w, key),
          key |-> IF EditKeypress(w, key).handled THEN "None" ELSE key,
          emit |-> FALSE]
    ELSE [w |-> w, key |-> key, emit |-> FALSE]

\* IntegerEdit.keypress
IntegerEdit_keypress(w, key) ==
    IF key = "enter"
    THEN LET activated == ~w.activated
         IN [w |-> [w EXCEPT !.activated = activated],
             key |-> "None", emit |-> ~activated]
    ELSE IF w.activated
    THEN [w |-> OriginalKeypress(w, key), key |-> "None", emit |-> FALSE]
    ELSE [w |-> w, key |-> key, emit |-> FALSE]

\* BooleanEdit.set_state
set_state(w, state) ==
    IF w.state = state THEN [w |-> w, key |-> "None", emit |-> FALSE]
    ELSE [w |-> [w EXCEPT !.state = state], key |-> "None", emit |-> TRUE]

\* a toggle that sets the state it already has
toggle_state_same(w) == set_state(w, w.state)

\* BooleanEdit.toggle_state
toggle_state(w) == set_state(w, ~w.state)

\* BooleanEdit.keypress
BooleanEdit_keypress(w, key) ==
    IF key \notin ActivateKeys THEN [w |-> w, key |-> key, emit |-> FALSE]
    ELSE toggle_state(w)

\* ComboEdit.set_choice
set_choice(w, choice_index) ==
    IF w.choice_index = choice_index THEN [w |-> w, key |-> "None", emit |-> FALSE]
    ELSE [w |-> [w EXCEPT !.choice_index = choice_index], key |-> "None", emit |-> TRUE]

\* a rotation to the previous choice
rotate_choice_reverse(w) ==
    IF w.choice_index = 0 THEN set_choice(w, Len(w.choices) - 1)
    ELSE set_choice(w, w.choice_index - 1)

\* a rotation that does not wrap
rotate_choice_nowrap(w) == set_choice(w, w.choice_index + 1)

\* ComboEdit.rotate_choice
rotate_choice(w) ==
    IF w.choice_index = Len(w.choices) - 1 THEN set_choice(w, 0)
    ELSE set_choice(w, w.choice_index + 1)

\* ComboEdit.keypress
ComboEdit_keypress(w, key) ==
    IF key \notin ActivateKeys THEN [w |-> w, key |-> key, emit |-> FALSE]
    ELSE rotate_choice(w)

\* dispatch on the widget class
keypress(w, key) ==
    CASE w.kind \in {"string", "array"} -> StringEdit_keypress(w, key)
      [] w.kind = "integer" -> IntegerEdit_keypress(w, key)
      [] w.kind = "boolean" -> BooleanEdit_keypress(w, key)
      [] w.kind = "combo" -> ComboEdit_keypress(w, key)

-----------------------------------------------------------------------------
(* tui.py: OptionRow, OptionList, Footer *)

\* OptionRow.build_value_widget
build_value_widget(option) ==
    CASE option.type = "string" -> StringEdit(option.value)
      [] option.type = "boolean" -> BooleanEdit(option.value)
      [] option.type = "combo" -> ComboEdit(option.value, option.choices.list)
      [] option.type = "integer" -> IntegerEdit(option.value)
      [] option.type = "array" -> ArrayEdit(option.value)

\* OptionRow.__init__
OptionRow(option) ==
    [changed |-> FALSE, name_widget |-> option.name,
     value_widget |-> build_value_widget(option)]

\* a set_changed without the early return
set_changed_always(row) ==
    [row EXCEPT !.changed = TRUE, !.name_widget = <<"*">> \o row.name_widget]

\* OptionRow.set_changed
set_changed(row) ==
    IF row.changed THEN row
    ELSE [row EXCEPT !.changed = TRUE, !.name_widget = <<"*">> \o row.name_widget]

\* OptionList.build_option_rows
build_option_rows(opts) == [i \in 1..Len(opts) |-> OptionRow(opts[i])]

\* OptionList.entry_modified_callback; raised when get_value raises, after
\* set_changed has run and before set_modified is called
entry_modified_callback(rws, opts, option_index) ==
    LET marked == [rws EXCEPT ![option_index + 1] = set_changed(@)]
        value == get_value(marked[option_index + 1].value_widget)
    IN IF value.ok
       THEN [rows |-> marked, options |-> set_modified(opts, option_index, value.v),
             raised |-> FALSE]
       ELSE [rows |-> marked, options |-> opts, raised |-> TRUE]

RECURSIVE ChoicesJoin(_)
\* for choice in option.choices: choices_str += f' {choice}'
ChoicesJoin(choices) ==
    IF choices = <<>> THEN <<>>
    ELSE <<" ">> \o choices[1] \o ChoicesJoin(Tail(choices))

\* a choices line for combo options only
choices_str_combo(option) ==
    IF option.type = "combo"
    THEN <<"C", "h", "o", "i", "c", "e", "s", ":">> \o ChoicesJoin(option.choices.list)
    ELSE <<>>

\* Footer.option_list_callback: the third line of text_info
choices_str(option) ==
    IF option.choices.present
    THEN <<"C", "h", "o", "i", "c", "e", "s", ":">> \o ChoicesJoin(option.choices.list)
    ELSE <<>>

\* Footer.option_list_callback: raised when get_option raises, else the
\* option shown and its choices line
option_list_callback(opts, option_index) ==
    IF option_index = None \/ ~get_option(opts, option_index).ok
    THEN [raised |-> TRUE, name |-> <<>>, third_line |-> <<>>]
    ELSE LET option == get_option(opts, option_index).v
         IN [raised |-> FALSE, name |-> option.name, third_line |-> choices_str(option)]

-----------------------------------------------------------------------------
(* meson_interface.py: ExitAction, MesonManager *)

ExitAction == {"nothing", "only-configure", "reconfigure"}

\* a manager constructed with the apply decision
default_exit_action_configure == "only-configure"

\* MesonManager.__init__: self.exit_action = ExitAction.NOTHING
default_exit_action == "nothing"

\* the return codes the external meson processes report
RetCodes == {0, 1, 2}

\* the -Dname=value arguments built by run_exit_action
config_args(modified_options) ==
    [i \in 1..Len(modified_options) |->
        <<"-", "D">> \o modified_options[i].name \o <<"=">>
            \o value_as_string(modified_options[i]).s]

Msg(text, n) == [msg |-> text, n |-> n]
Call(step, args, returncode) == [step |-> step, args |-> args, returncode |-> returncode]

\* the changes are never discarded
discards_never(action) == FALSE

\* run_exit_action: if self.exit_action == ExitAction.NOTHING
discards(action) == action = "nothing"

\* meson configure is run even without a change
nothing_to_configure_never(modified_options_count) == FALSE

\* run_exit_action: if modified_options_count == 0
nothing_to_configure(modified_options_count) == modified_options_count = 0

\* the reconfiguration is left out for every exit action
configure_only_always(action) == TRUE

\* the apply step is always followed by the reload step
configure_only_never(action) == FALSE

\* run_exit_action: if self.exit_action == ExitAction.ONLY_CONFIGURE
configure_only(action) == action = "only-configure"

\* the return code of meson configure is not looked at
configure_failed_never(returncode) == FALSE

\* run_exit_action: if meson_configure_proc.returncode != 0
configure_failed(returncode) == returncode # 0

\* MesonManager.run_exit_action, the two subprocesses returning
\* configure_rc and reconfigure_rc
run_exit_action(opts, action, configure_rc, reconfigure_rc) ==
    LET modified_options == get_modified_options(opts)
        modified_options_count == Len(modified_options)
        raises == \E i \in 1..modified_options_count :
                      ~value_as_string(modified_options[i]).ok
        configure == Call("configure", config_args(modified_options), configure_rc)
        reconfigure == Call("reconfigure", <<>>, reconfigure_rc)
    IN IF discards(action)
       THEN [out |-> IF modified_options_count # 0
                     THEN <<Msg("Ignoring changes", modified_options_count)>>
                     ELSE <<>>,
             calls |-> <<>>, rc |-> 0, raised |-> FALSE]
       ELSE IF nothing_to_configure(modified_options_count)
       THEN [out |-> <<Msg("Nothing to configure!", 0)>>,
             calls |-> <<>>, rc |-> 0, raised |-> FALSE]
       ELSE IF raises
       THEN [out |-> <<Msg("Configuring changes", modified_options_count)>>,
             calls |-> <<>>, rc |-> None, raised |-> TRUE]
       ELSE IF configure_only(action)
       THEN [out |-> <<Msg("Configuring changes", modified_options_count)>>,
             calls |-> <<configure>>, rc |-> configure_rc, raised |-> FALSE]
       ELSE IF configure_failed(configure_rc)
       THEN [out |-> <<Msg("Configuring changes", modified_options_count),
                       Msg("Configuration failed, skipping reconfiguration!", 0)>>,
             calls |-> <<configure>>, rc |-> configure_rc, raised |-> FALSE]
       ELSE [out |-> <<Msg("Configuring changes", modified_options_count),
                       Msg("Reconfiguring project", 0)>>,
             calls |-> <<configure, reconfigure>>, rc |-> reconfigure_rc,
             raised |-> FALSE]

\* a handler that knows the lower-case keys only
global_key_handler_lower(key, action) ==
    IF key = "q" THEN [exit_action |-> "nothing", exit |-> TRUE]
    ELSE IF key = "c" THEN [exit_action |-> "reconfigure", exit |-> TRUE]
    ELSE IF key = "g" THEN [exit_action |-> "only-configure", exit |-> TRUE]
    ELSE [exit_action |-> action, exit |-> FALSE]

\* a handler that sets the exit action and lets the loop go on
global_key_handler_stay(key, action) ==
    IF key \in {"q", "Q"} THEN [exit_action |-> "nothing", exit |-> FALSE]
    ELSE IF key \in {"c", "C"} THEN [exit_action |-> "reconfigure", exit |-> FALSE]
    ELSE IF key \in {"g", "G"} THEN [exit_action |-> "only-configure", exit |-> FALSE]
    ELSE [exit_action |-> action, exit |-> FALSE]

\* tui.global_key_handler: the exit action after the key and whether
\* ExitMainLoop is raised
global_key_handler(key, action) ==
    IF key \in {"q", "Q"} THEN [exit_action |-> "nothing", exit |-> TRUE]
    ELSE IF key \in {"c", "C"} THEN [exit_action |-> "reconfigure", exit |-> TRUE]
    ELSE IF key \in {"g", "G"} THEN [exit_action |-> "only-configure", exit |-> TRUE]
    ELSE [exit_action |-> action, exit |-> FALSE]

-----------------------------------------------------------------------------
(* The options loaded *)

O_debug == Option(<<"d">>, BoolV(TRUE), "boolean", NoChoices, "core", "any")
O_warning ==
    Option(<<"w">>, StrV(<<"1">>), "combo",
           Choices(<< <<"0">>, <<"1">>, <<"2">> >>), "core", "any")
O_prefix == Option(<<"p">>, StrV(<<"a">>), "string", NoChoices, "directory", "any")
O_jobs == Option(<<"j">>, IntV(10), "integer", NoChoices, "backend", "any")
O_list ==
    Option(<<"s", ":", "a">>, ListV(<<StrV(<<"a">>)>>), "array",
           Choices(<< <<"a">>, <<"b">> >>), "user", "host")

\* the option lists parse_buildoptions hands over in a session
Inputs == {<<>>, <<O_warning, O_debug>>, <<O_prefix, O_jobs>>, <<O_list, O_debug>>}

\* options of several subprojects and sections, to be sorted
S_a == Option(<<"a">>, BoolV(TRUE), "boolean", NoChoices, "core", "any")
S_b == Option(<<"b">>, BoolV(TRUE), "boolean", NoChoices, "user", "any")
S_ab == Option(<<"a", "b">>, BoolV(FALSE), "boolean", NoChoices, "core", "any")
S_sa == Option(<<"s", ":", "a">>, BoolV(TRUE), "boolean", NoChoices, "backend", "any")
S_sb == Option(<<"s", ":", "b">>, BoolV(TRUE), "boolean", NoChoices, "base", "any")
S_ta == Option(<<"t", ":", "a">>, BoolV(TRUE), "boolean", NoChoices, "user", "any")
SortPool == {S_a, S_b, S_ab, S_sa, S_sb, S_ta}

\* a second option named a, with the sort key of S_a
S_a2 == Option(<<"a">>, BoolV(FALSE), "boolean", NoChoices, "core", "any")

\* the characters of the entries of an array value: a letter and the
\* separators of the list syntax
EntryChars == {"a", ",", "]"}

\* the array values of at most MaxListLen entries of at most MaxEntryLen
\* characters
ArrayValues ==
    LET entries == {StrV(e) : e \in UNION {[1..n -> EntryChars] : n \in 0..MaxEntryLen}}
    IN {ListV(l) : l \in UNION {[1..n -> entries] : n \in 0..MaxListLen}}

\* the lists of at most MaxSortLen options, names repeated or not
DupInputs == UNION {[1..n -> SortPool \cup {S_a2}] : n \in 0..MaxSortLen}

\* the lists of at most MaxSortLen options with distinct names
SortInputs ==
    {l \in UNION {[1..n -> SortPool] : n \in 0..MaxSortLen} :
        \A i, j \in 1..Len(l) : i # j => l[i].name # l[j].name}

-----------------------------------------------------------------------------
(* The session: cli.main, build_ui, main_loop *)

Init ==
    /\ pc = "start"
    /\ input = <<>>
    /\ options = <<>>
    /\ loaded = <<>>
    /\ rows = <<>>
    /\ focus = None
    /\ footer = None
    /\ exit_action = default_exit_action
    /\ edits = 0
    /\ signals = 0
    /\ calls = <<>>
    /\ out = <<>>
    /\ rc = None
    /\ return_code = None
    /\ ended_by = "none"
    /\ call = NoCall
    /\ result = NoCall

\* cli.main: options_manager.set_options(meson_manager.parse_buildoptions())
SetOptionsFrom(inputs) ==
    /\ pc = "start"
    /\ \E l \in inputs :
          /\ input' = l
          /\ options' = set_options(l).options
          /\ loaded' = set_options(l).options
    /\ pc' = "loaded"
    /\ UNCHANGED <<rows, focus, footer, exit_action, edits, signals, calls, out,
                   rc, return_code, ended_by, call, result>>

SetOptions == SetOptionsFrom(Inputs)

\* tui.build_ui: the rows, the walker's initial focus and the initial
\* focus_modified_callback; with no option the walker has no focus and
\* Footer.option_list_callback raises on get_option(None)
BuildUI ==
    /\ pc = "loaded"
    /\ rows' = build_option_rows(options)
    /\ IF Len(options) = 0
       THEN /\ focus' = None
            /\ footer' = None
            /\ pc' = "crashed"
       ELSE /\ focus' = 0
            /\ footer' = 0
            /\ pc' = "loop"
    /\ UNCHANGED <<input, options, loaded, exit_action, edits, signals, calls,
                   out, rc, return_code, ended_by, call, result>>

\* one key through MainLoop.process_input: the focused row's editor, then
\* the list box (up, down), then global_key_handler
Keypress(key) ==
    /\ pc = "loop"
    /\ LET w == rows[focus + 1].value_widget
           r == keypress(w, key)
           rows1 == [rows EXCEPT ![focus + 1].value_widget = r.w]
           cb == entry_modified_callback(rows1, options, focus)
           g == global_key_handler(key, exit_action)
       IN IF r.emit
          THEN /\ signals < MaxCommits
               /\ signals' = signals + 1
               /\ rows' = cb.rows
               /\ options' = cb.options
               /\ pc' = IF cb.raised THEN "crashed" ELSE "loop"
               /\ UNCHANGED <<focus, footer, exit_action, edits, ended_by>>
          ELSE IF r.key = "None"
          THEN /\ rows' = rows1
               /\ edits' = IF key # "enter" /\ r.w # w THEN edits + 1 ELSE edits
               /\ edits' <= MaxEdits
               /\ UNCHANGED <<pc, options, focus, footer, exit_action, signals,
                              ended_by>>
          ELSE IF key = "up" /\ focus > 0
          THEN /\ focus' = focus - 1
               /\ footer' = focus - 1
               /\ UNCHANGED <<pc, options, rows, exit_action, edits, signals,
                              ended_by>>
          ELSE IF key = "down" /\ focus < Len(rows) - 1
          THEN /\ focus' = focus + 1
               /\ footer' = focus + 1
               /\ UNCHANGED <<pc, options, rows, exit_action, edits, signals,
                              ended_by>>
          ELSE /\ exit_action' = g.exit_action
               /\ pc' = IF g.exit THEN "exited" ELSE "loop"
               /\ ended_by' = IF g.exit THEN "key" ELSE ended_by
               /\ UNCHANGED <<options, rows, focus, footer, edits, signals>>
    /\ UNCHANGED <<input, loaded, calls, out, rc, return_code, call, result>>

\* a main_loop that does not catch KeyboardInterrupt
Interrupt_uncaught ==
    /\ pc = "loop"
    /\ pc' = "crashed"
    /\ ended_by' = "interrupt"
    /\ UNCHANGED <<input, options, loaded, rows, focus, footer, exit_action,
                   edits, signals, calls, out, rc, return_code, call, result>>

\* main_loop: KeyboardInterrupt out of loop.run() is caught
Interrupt ==
    /\ pc = "loop"
    /\ pc' = "exited"
    /\ ended_by' = "interrupt"
    /\ UNCHANGED <<input, options, loaded, rows, focus, footer, exit_action,
                   edits, signals, calls, out, rc, return_code, call, result>>

\* main_loop after loop.run(): meson_manager.run_exit_action(); return 0
RunExitAction ==
    /\ pc = "exited"
    /\ \E configure_rc \in RetCodes, reconfigure_rc \in RetCodes :
          LET r == run_exit_action(options, exit_action, configure_rc, reconfigure_rc)
          IN /\ out' = r.out
             /\ calls' = r.calls
             /\ rc' = r.rc
             /\ pc' = IF r.raised THEN "crashed" ELSE "done"
             /\ return_code' = IF r.raised THEN None ELSE 0
    /\ UNCHANGED <<input, options, loaded, rows, focus, footer, exit_action,
                   edits, signals, ended_by, call, result>>

Next ==
    \/ SetOptions
    \/ BuildUI
    \/ \E key \in Keys : Keypress(key)
    \/ Interrupt
    \/ RunExitAction

Spec == Init /\ [][Next]_vars

\* loading alone, over the lists of SortInputs
SortOptions == SetOptionsFrom(SortInputs)

SortNext == SortOptions

SortSpec == Init /\ [][SortNext]_vars

-----------------------------------------------------------------------------
(* Functions applied on their own *)

\* global_key_handler(key) with the manager holding any exit action
ApplyGlobalKeyHandler ==
    /\ pc = "start"
    /\ call = NoCall
    /\ \E key \in Keys, action \in ExitAction :
          /\ call' = [fn |-> "global_key_handler", key |-> key, action |-> action]
          /\ result' = global_key_handler(key, action)
    /\ UNCHANGED <<pc, input, options, loaded, rows, focus, footer, exit_action,
                   edits, signals, calls, out, rc, return_code, ended_by>>

\* get_option(index) on a store set by set_options
ApplyGetOption ==
    /\ pc = "start"
    /\ call = NoCall
    /\ \E l \in SortInputs, index \in (-MaxIndex)..MaxIndex :
          /\ call' = [fn |-> "get_option", options |-> set_options(l).options,
                      index |-> index]
          /\ result' = get_option(set_options(l).options, index)
    /\ UNCHANGED <<pc, input, options, loaded, rows, focus, footer, exit_action,
                   edits, signals, calls, out, rc, return_code, ended_by>>

\* set_options(options) on any list of options
ApplySetOptions ==
    /\ pc = "start"
    /\ call = NoCall
    /\ \E l \in DupInputs :
          /\ call' = [fn |-> "set_options", options |-> l]
          /\ result' = set_options(l)
    /\ UNCHANGED <<pc, input, options, loaded, rows, focus, footer, exit_action,
                   edits, signals, calls, out, rc, return_code, ended_by>>

\* option.value_as_string() of an array option
ApplyValueAsString ==
    /\ pc = "start"
    /\ call = NoCall
    /\ \E value \in ArrayValues :
          LET option == Option(<<"s">>, value, "array", NoChoices, "user", "any")
          IN /\ call' = [fn |-> "value_as_string", option |-> option]
             /\ result' = value_as_string(option)
    /\ UNCHANGED <<pc, input, options, loaded, rows, focus, footer, exit_action,
                   edits, signals, calls, out, rc, return_code, ended_by>>

\* ArrayEdit(value), then the keys enter and enter, then get_value()
ApplyArrayEdit ==
    /\ pc = "start"
    /\ call = NoCall
    /\ \E value \in ArrayValues :
          LET opened == keypress(ArrayEdit(value), "enter")
              closed == keypress(opened.w, "enter")
          IN /\ call' = [fn |-> "ArrayEdit", value |-> value]
             /\ result' = [text |-> closed.w.text, activated |-> opened.w.activated,
                           emit |-> closed.emit, value |-> get_value(closed.w)]
    /\ UNCHANGED <<pc, input, options, loaded, rows, focus, footer, exit_action,
                   edits, signals, calls, out, rc, return_code, ended_by>>

PureNext ==
    \/ ApplyGlobalKeyHandler
    \/ ApplyValueAsString
    \/ ApplyArrayEdit
    \/ ApplySetOptions
    \/ ApplyGetOption

PureSpec == Init /\ [][PureNext]_vars

TypeOK ==
    /\ pc \in {"start", "loaded", "loop", "exited", "done", "crashed"}
    /\ exit_action \in ExitAction
    /\ edits \in 0..MaxEdits
    /\ signals \in 0..MaxCommits
    /\ Len(rows) \in {0, Len(options)}

-----------------------------------------------------------------------------
(* Properties *)

\* the positions of the options marked modified
ModifiedIdx == {i \in 1..Len(options) : options[i].modified}

\* the positions of the options whose value is not the one loaded
DiffersIdx == {i \in 1..Len(options) : options[i].value # loaded[i].value}

\* the positions of the rows marked changed
ChangedIdx == {i \in 1..Len(rows) : rows[i].changed}

RECURSIVE PickFrom(_, _, _)
PickFrom(seq, S, i) ==
    IF i > Len(seq) THEN <<>>
    ELSE (IF i \in S THEN <<seq[i]>> ELSE <<>>) \o PickFrom(seq, S, i + 1)

\* the entries of seq at the positions in S, in the order of seq
Pick(seq, S) == PickFrom(seq, S, 1)

InSession == pc \in {"loop", "exited", "done"}

\* C1 as stated: after any sequence of commits get_modified_options()
\* returns exactly the options whose current value differs from their
\* load-time value, in store order; an option changed and changed back is
\* not returned.
C1_ModifiedIffDiffers ==
    InSession => get_modified_options(options) = Pick(options, DiffersIdx)

\* C1 amended: after any sequence of commits get_modified_options() returns
\* exactly the options that were committed at least once since load (their
\* row is marked changed), in store order; every option whose current value
\* differs from its load-time value is among them, and an option whose value
\* was changed and changed back stays in the list.
C1_ModifiedIffCommitted ==
    InSession =>
        /\ get_modified_options(options) = Pick(options, ChangedIdx)
        /\ DiffersIdx \subseteq ChangedIdx

\* a boolean toggled twice: back at its load-time value and still returned
C1_ToggledTwice ==
    /\ pc = "loop"
    /\ \E i \in 1..Len(options) :
          /\ options[i].type = "boolean"
          /\ options[i].value = loaded[i].value
          /\ options[i] \in {get_modified_options(options)[k] :
                                k \in 1..Len(get_modified_options(options))}

\* C2 as stated: for every editor kind, a commit whose value equals the
\* option's current value never sets the modified flag, never marks the row
\* and never fires a 'changed' notification (enter, enter on an unchanged
\* string, integer or array buffer leaves the option unmodified).
C2_SameValueCommitIsNoop ==
    [][(pc = "loop" /\ pc' = "loop") =>
          /\ \A i \in 1..Len(options) :
                options'[i].value = options[i].value =>
                    /\ options'[i].modified = options[i].modified
                    /\ rows'[i].changed = rows[i].changed
          /\ signals' # signals =>
                \E i \in 1..Len(options) : options'[i].value # options[i].value]_vars

\* the focused editor is an array editor in the editing state whose buffer
\* is not a well-formed literal
MalformedArrayEdit ==
    /\ pc = "loop"
    /\ rows[focus + 1].value_widget.kind = "array"
    /\ rows[focus + 1].value_widget.activated
    /\ ~literal_eval(rows[focus + 1].value_widget.text).ok

\* C3 as stated: the confirm key on an array editor with a malformed buffer
\* is rejected locally: the editor stays in the editing state, no 'changed'
\* notification fires, neither flag is set, the stored value is unchanged
\* and the error does not escape the row.
C3_MalformedCommitRejected ==
    [][MalformedArrayEdit =>
          /\ rows'[focus + 1].value_widget.activated
          /\ pc' # "crashed"
          /\ signals' = signals
          /\ rows'[focus + 1].changed = rows[focus + 1].changed
          /\ options' = options]_vars

\* C4 as stated: the status returned by the session (main_loop, cli.main)
\* equals the status computed by run_exit_action.
C4_SessionStatusIsExitStatus == pc = "done" => return_code = rc

\* C5: with RECONFIGURE and a non-empty modified subset the apply step is
\* invoked, and if it reports a non-zero status the reload step is never
\* invoked and run_exit_action returns the apply step's status.
C5_FailedApplySkipsReload ==
    (pc = "done" /\ exit_action = "reconfigure" /\ ModifiedIdx # {}) =>
        /\ Len(calls) >= 1
        /\ calls[1].step = "configure"
        /\ calls[1].returncode # 0 =>
              /\ \A k \in 1..Len(calls) : calls[k].step # "reconfigure"
              /\ rc = calls[1].returncode

C5_ApplyFailed ==
    /\ pc = "done"
    /\ exit_action = "reconfigure"
    /\ calls # <<>>
    /\ calls[1].returncode # 0
    /\ rc # 0

\* C6: with RECONFIGURE, a non-empty modified subset and a successful apply
\* step, the reload step is invoked exactly once, after the apply step, and
\* run_exit_action returns the reload step's status.
C6_ReloadAfterApply ==
    (pc = "done" /\ exit_action = "reconfigure" /\ ModifiedIdx # {}
        /\ calls # <<>> /\ calls[1].returncode = 0) =>
        /\ Len(calls) = 2
        /\ calls[1].step = "configure"
        /\ calls[2].step = "reconfigure"
        /\ rc = calls[2].returncode

C6_Reloaded ==
    /\ pc = "done"
    /\ exit_action = "reconfigure"
    /\ Len(calls) = 2
    /\ calls[2].returncode # 0

\* C7: with NOTHING, run_exit_action invokes no external step and returns
\* success; it prints the 'N changes' message iff the modified subset is
\* non-empty, N being the number of modified options.
C7_NothingDiscards ==
    (pc = "done" /\ exit_action = "nothing") =>
        /\ calls = <<>>
        /\ rc = 0
        /\ out = IF ModifiedIdx # {}
                 THEN <<Msg("Ignoring changes", Cardinality(ModifiedIdx))>>
                 ELSE <<>>

C7_Discarded ==
    /\ pc = "done"
    /\ exit_action = "nothing"
    /\ ModifiedIdx # {}
    /\ out # <<>>

\* C8: with ONLY_CONFIGURE or RECONFIGURE and an empty modified subset,
\* run_exit_action prints 'Nothing to configure!', returns success and
\* invokes neither external step.
C8_NothingToConfigure ==
    (pc = "done" /\ exit_action \in {"only-configure", "reconfigure"}
        /\ ModifiedIdx = {}) =>
        /\ out = <<Msg("Nothing to configure!", 0)>>
        /\ rc = 0
        /\ calls = <<>>

C8_NoChanges ==
    /\ pc = "done"
    /\ exit_action \in {"only-configure", "reconfigure"}
    /\ ModifiedIdx = {}
    /\ out # <<>>

\* C9: when the apply step is invoked, its assignment list holds exactly one
\* -Dname=value entry per modified option and none for an unmodified one, in
\* store order, the value being the option's value when the loop ended.
C9_AssignmentList ==
    (pc = "done" /\ calls # <<>>) =>
        LET m == Pick(options, ModifiedIdx)
        IN /\ calls[1].step = "configure"
           /\ Len(calls[1].args) = Cardinality(ModifiedIdx)
           /\ \A k \in 1..Len(m) :
                 calls[1].args[k] =
                     <<"-", "D">> \o m[k].name \o <<"=">> \o value_as_string(m[k]).s

C9_OneOfTwoApplied ==
    /\ pc = "done"
    /\ calls # <<>>
    /\ Len(options) = 2
    /\ Len(calls[1].args) = 1
    /\ options[2].modified

\* the sort key as the claim words it
HasPrefix(name) == \E i \in 1..Len(name) : name[i] = ":"
FirstColon(name) == CHOOSE i \in 1..Len(name) :
                        name[i] = ":" /\ \A j \in 1..(i - 1) : name[j] # ":"
PrefixOf(name) == IF HasPrefix(name) THEN SubSeq(name, 1, FirstColon(name) - 1) ELSE <<>>
AfterPrefix(name) ==
    IF HasPrefix(name) THEN SubSeq(name, FirstColon(name) + 1, Len(name)) ELSE name
Priority(section) ==
    CASE section = "user" -> 1 [] section = "base" -> 2 [] section = "compiler" -> 3
      [] section = "core" -> 4 [] section = "directory" -> 5 [] section = "test" -> 6
      [] section = "backend" -> 7
StrLeq(a, b) == a = b \/ StrLess(a, b)
SortKeyLeq(a, b) ==
    \/ StrLess(PrefixOf(a.name), PrefixOf(b.name))
    \/ /\ PrefixOf(a.name) = PrefixOf(b.name)
       /\ \/ Priority(a.section) < Priority(b.section)
          \/ /\ Priority(a.section) = Priority(b.section)
             /\ StrLeq(AfterPrefix(a.name), AfterPrefix(b.name))

\* C10: after set_options every adjacent pair (a, b) of the store satisfies
\* key(a) <= key(b) for key = (subproject prefix or '', section priority,
\* name after the prefix), and every option without a prefix precedes every
\* option with one.
C10_SortInvariant ==
    pc = "loaded" =>
        /\ \A i \in 1..(Len(options) - 1) : SortKeyLeq(options[i], options[i + 1])
        /\ \A i, j \in 1..Len(options) :
              (~HasPrefix(options[i].name) /\ HasPrefix(options[j].name)) => i < j

C10_Reordered ==
    /\ pc = "loaded"
    /\ Len(options) = 3
    /\ options # input
    /\ HasPrefix(input[1].name)
    /\ ~HasPrefix(input[3].name)
    /\ input[2].section # input[3].section

\* C11: an interrupt during the blocking wait, in any reachable state of the
\* loop (an editor in the editing state, any number of commits), ends the
\* loop without crashing and results in the no-op exit decision: no external
\* apply or reload step is invoked.
C11_InterruptIsNoop ==
    ended_by = "interrupt" =>
        /\ pc \in {"exited", "done"}
        /\ exit_action = "nothing"
        /\ calls = <<>>
        /\ pc = "done" => rc = 0

\* interrupted after a commit, while an editor is in the editing state
C11_InterruptedWhileEditing ==
    /\ pc = "done"
    /\ ended_by = "interrupt"
    /\ ModifiedIdx # {}
    /\ \E i \in 1..Len(rows) : rows[i].value_widget.activated

\* C12: in the global key handler each of the keys q/Q, g/G, c/C sets the
\* exit action (no-op, apply-only, apply-and-reload, the same for upper and
\* lower case) and ends the loop; every other key leaves the exit action
\* unchanged and does not end the loop.
C12_GlobalKeys ==
    call.fn = "global_key_handler" =>
        LET quit == call.key = "q" \/ call.key = "Q"
            apply == call.key = "g" \/ call.key = "G"
            reload == call.key = "c" \/ call.key = "C"
        IN /\ quit => result.exit_action = "nothing"
           /\ apply => result.exit_action = "only-configure"
           /\ reload => result.exit_action = "reconfigure"
           /\ ~(quit \/ apply \/ reload) => result.exit_action = call.action
           /\ result.exit <=> (quit \/ apply \/ reload)

\* the upper-case apply key pressed while another decision is held
C12_UpperCaseApply ==
    /\ call.fn = "global_key_handler"
    /\ call.key = "G"
    /\ call.action = "reconfigure"
    /\ result.exit
    /\ result.exit_action = "only-configure"

OnlyComboCommitted ==
    {i \in 1..Len(rows) :
        /\ options[i].type = "combo"
        /\ \A j \in 1..Len(rows) : j # i => ~rows[j].changed}

\* C14: activating a combo editor commits the next entry of choices
\* cyclically: from index i < len-1 to i+1, from the last index to 0; after
\* k activations the editor and the store are k entries further, so after
\* exactly len(choices) activations the value is back where it started.
C14_ComboCycles ==
    InSession =>
        \A i \in OnlyComboCommitted :
            LET choices == options[i].choices.list
                start == IndexOf(choices, loaded[i].value.s)
                now == (start + signals) % Len(choices)
            IN /\ rows[i].value_widget.choice_index = now
               /\ options[i].value = StrV(choices[now + 1])
               /\ signals = Len(choices) => options[i].value = loaded[i].value
               /\ signals \in 1..(Len(choices) - 1) =>
                     options[i].value # loaded[i].value

\* a combo activated len(choices) times: wrapped once and back at its start
C14_FullCycle ==
    /\ pc = "loop"
    /\ \E i \in OnlyComboCommitted :
          /\ signals = Len(options[i].choices.list)
          /\ rows[i].changed
          /\ options[i].value = loaded[i].value

\* C15: in every reachable state the value of every combo option in the
\* store, and the value reported by its ComboEdit, is a member of the
\* option's choices, and choice_index is within [0, len(choices)).
C15_ComboValueInChoices ==
    \A i \in 1..Len(options) :
        options[i].type = "combo" =>
            LET choices == options[i].choices.list
                members == {choices[k] : k \in 1..Len(choices)}
            IN /\ options[i].value.t = "str"
               /\ options[i].value.s \in members
               /\ i <= Len(rows) =>
                     LET w == rows[i].value_widget
                     IN /\ w.choice_index \in 0..(Len(choices) - 1)
                        /\ get_value(w).ok
                        /\ get_value(w).v.s \in members

\* a combo committed from its last choice
C15_WrappedToFirst ==
    /\ pc = "loop"
    /\ \E i \in 1..Len(rows) :
          /\ options[i].type = "combo"
          /\ rows[i].changed
          /\ rows[i].value_widget.choice_index = 0
          /\ options[i].value = StrV(options[i].choices.list[1])

\* C16 as stated: set_modified fails on a value whose kind is not the
\* option's kind, so in every reachable state the stored value of a
\* string-list option is a list of strings, whatever well-formed literal the
\* array editor's buffer holds on commit.
C16_ArrayValueIsStringList ==
    \A i \in 1..Len(options) :
        options[i].type = "array" =>
            /\ options[i].value.t = "list"
            /\ \A k \in 1..Len(options[i].value.l) : options[i].value.l[k].t = "str"

DuplicateNames(l) == \E i, j \in 1..Len(l) : i # j /\ l[i].name = l[j].name

\* the number of entries of l equal to x
CountOf(l, x) == Cardinality({i \in 1..Len(l) : l[i] = x})

\* the position of the only entry of l equal to x
PositionOf(l, x) == CHOOSE i \in 1..Len(l) : l[i] = x

RECURSIVE QuotedEntries(_)
\* the entries, each in single quotes, separated by commas
QuotedEntries(l) ==
    IF l = <<>> THEN <<>>
    ELSE IF Len(l) = 1 THEN <<"'">> \o l[1].s \o <<"'">>
    ELSE <<"'">> \o l[1].s \o <<"'", ",">> \o QuotedEntries(Tail(l))

\* C19 as stated: value_as_string of a string-list option yields, for
\* every list value, '[' then each entry once, in order, in single quotes
\* and separated by commas with no trailing comma, then ']'; '[]' for the
\* empty list.
C19_BracketedQuotedList ==
    call.fn = "value_as_string" =>
        /\ result.ok
        /\ result.s = <<"[">> \o QuotedEntries(call.option.value.l) \o <<"]">>

\* C20: for any list of strings L whose entries hold no character that
\* breaks the literal syntax, an array editor pre-filled with L's textual
\* representation and committed with the buffer unmodified parses back to
\* a list equal to L.
C20_ArrayEditRoundTrip ==
    call.fn = "ArrayEdit" =>
        /\ result.activated
        /\ result.emit
        /\ result.value.ok
        /\ result.value.v = call.value

\* a list of two entries, one of them made of separators, read back
C20_SeparatorsInEntry ==
    /\ call.fn = "ArrayEdit"
    /\ call.value = ListV(<<StrV(<<"]", ",">>), StrV(<<"a">>)>>)
    /\ result.text = <<"[", "'", "]", ",", "'", ",", " ", "'", "a", "'", "]">>
    /\ result.value.ok
    /\ result.value.v = call.value

\* C21: OptionRow.set_changed is idempotent: the first call sets changed
\* and prefixes the label with exactly one '*', every later call leaves
\* flag and label as they are, so after any number of commits the label is
\* the option's name with at most one '*' before it.
C21_OneStar ==
    \A i \in 1..Len(rows) :
        /\ rows[i].name_widget =
              IF rows[i].changed THEN <<"*">> \o options[i].name ELSE options[i].name
        /\ set_changed(set_changed(rows[i])) = set_changed(rows[i])
        /\ set_changed(rows[i]).changed

\* one row committed three times
C21_CommittedThrice ==
    /\ pc = "loop"
    /\ signals = 3
    /\ \E i \in 1..Len(rows) :
          /\ rows[i].changed
          /\ \A j \in 1..Len(rows) : j # i => ~rows[j].changed
          /\ rows[i].name_widget = <<"*">> \o options[i].name

\* C22 as stated: every focus change raises 'focus-modified' with the index
\* of the newly focused row, and one such notification reaches the detail
\* panel right after construction, before any input, for every loaded
\* store, an empty one included; the detail panel always shows the option
\* whose index is the focus index.
C22_PanelShowsFocused ==
    pc \notin {"start", "loaded"} =>
        /\ footer = focus
        /\ footer \in 0..(Len(options) - 1)

\* what the detail panel shows
Panel == option_list_callback(options, footer)

RECURSIVE ChoicesLine(_)
\* 'Choices:' and then every choice after a space
ChoicesLine(list) ==
    IF list = <<>> THEN <<"C", "h", "o", "i", "c", "e", "s", ":">>
    ELSE ChoicesLine(SubSeq(list, 1, Len(list) - 1)) \o <<" ">> \o list[Len(list)]

\* C23 as stated: the detail panel renders the choice list if and only if
\* the focused option's kind is combo; for a string, boolean, integer or
\* array option the choices line is empty, whatever its choices field holds.
C23_ChoicesIffCombo ==
    pc = "loop" =>
        (Panel.third_line # <<>> <=> options[focus + 1].type = "combo")

\* C23 amended: the detail panel renders the choice list if and only if the
\* focused option's choices field is present (not None), whatever the
\* option's kind: for a combo option and for an array option declared with
\* choices the line is 'Choices:' followed by each choice after a space; it
\* is empty for an option that has no choices field.
C23_ChoicesIffPresent ==
    pc = "loop" =>
        /\ Panel.name = options[focus + 1].name
        /\ Panel.third_line # <<>> <=> options[focus + 1].choices.present
        /\ options[focus + 1].choices.present =>
              Panel.third_line = ChoicesLine(options[focus + 1].choices.list)

\* an array option declared with choices is focused and its choices shown
C23_ArrayChoicesShown ==
    /\ pc = "loop"
    /\ options[focus + 1].type = "array"
    /\ options[focus + 1].choices.list = << <<"a">>, <<"b">> >>
    /\ Panel.third_line =
          <<"C", "h", "o", "i", "c", "e", "s", ":", " ", "a", " ", "b">>

\* C24: the exit action defaults to no-op and is overwritten at most once
\* per session: it holds the default as long as the loop runs, it is written
\* only by the step of the global key handler that ends the loop, and after
\* that step no key is processed and nothing writes it before
\* run_exit_action has consumed it.
C24_ExitActionWrittenOnce ==
    [][/\ pc \in {"start", "loaded", "loop"} => exit_action = "nothing"
       /\ exit_action' # exit_action =>
             pc = "loop" /\ pc' = "exited" /\ ended_by' = "key"
       /\ ended_by' = "key" => pc' \in {"exited", "done", "crashed"}
       /\ pc \in {"exited", "done", "crashed"} =>
             UNCHANGED <<exit_action, ended_by, options, rows, focus, footer,
                         signals, edits>>]_vars

\* the apply-and-reload key after a commit, consumed by run_exit_action
C24_DecisionConsumed ==
    /\ pc = "done"
    /\ ended_by = "key"
    /\ exit_action = "reconfigure"
    /\ signals > 0
    /\ Len(calls) = 2

\* C25: activating a boolean editor commits the negation of its state: each
\* activation key flips the state and fires 'changed', a step changes a
\* boolean editor only by flipping it with exactly one notification, and the
\* store value at the row's index is the editor's state whenever a key is
\* about to be processed.
C25_BooleanFlips ==
    [][(pc = "loop" /\ rows[focus + 1].value_widget.kind = "boolean") =>
          LET w == rows[focus + 1].value_widget
              after == rows'[focus + 1].value_widget
          IN /\ options[focus + 1].value = BoolV(w.state)
             /\ \A key \in ActivateKeys :
                   /\ keypress(w, key).emit
                   /\ keypress(w, key).key = "None"
                   /\ keypress(w, key).w.state = ~w.state
             /\ after # w =>
                   /\ after.state = ~w.state
                   /\ signals' = signals + 1
                   /\ options'[focus + 1].value = BoolV(after.state)
                   /\ pc' = "loop"]_vars

\* a boolean activated once: the store holds the negated value
C25_ToggledOnce ==
    /\ pc = "loop"
    /\ signals = 1
    /\ options[focus + 1].type = "boolean"
    /\ options[focus + 1].value = BoolV(~loaded[focus + 1].value.b)
    /\ rows[focus + 1].value_widget.state = ~loaded[focus + 1].value.b

\* C26: string, integer and array editors are two-state machines. Idle:
\* enter moves to editing (string and array with the cursor at the end of
\* the text) and every other key is returned unhandled, the buffer
\* unchanged. Editing: enter moves back to idle and commits the buffer,
\* every other key goes to the buffer and is not passed on. 'changed' is
\* emitted only on the editing-to-idle transition. Checked for every key on
\* the editor that receives the keys, in every state of the loop.
C26_TwoStateEditors ==
    (pc = "loop"
        /\ rows[focus + 1].value_widget.kind \in {"string", "integer", "array"}) =>
        LET w == rows[focus + 1].value_widget
        IN \A key \in Keys :
              LET r == keypress(w, key)
              IN /\ (~w.activated /\ key = "enter") =>
                       /\ r.w.activated /\ r.w.text = w.text
                       /\ r.key = "None" /\ ~r.emit
                       /\ w.kind # "integer" => r.w.edit_pos = Len(w.text)
                 /\ (~w.activated /\ key # "enter") =>
                       r.w = w /\ r.key = key /\ ~r.emit
                 /\ (w.activated /\ key = "enter") =>
                       /\ ~r.w.activated /\ r.w.text = w.text
                       /\ r.key = "None" /\ r.emit
                 /\ (w.activated /\ key # "enter") =>
                       /\ r.w.activated /\ r.w = OriginalKeypress(w, key)
                       /\ r.key = "None" /\ ~r.emit

\* the quit key typed into a string editor in the editing state
C26_QuitKeyInBuffer ==
    /\ pc = "loop"
    /\ rows[focus + 1].value_widget.kind = "string"
    /\ rows[focus + 1].value_widget.activated
    /\ rows[focus + 1].value_widget.text = <<"a", "q">>
    /\ options[focus + 1].value = StrV(<<"a">>)

\* the option without its value and its modified flag
Fixed(option) == [option EXCEPT !.value = None, !.modified = FALSE]

\* C27: a commit on row i writes only option i: its value and its modified
\* flag change; every other option, and the name, kind, choices, section and
\* scope of every option, stay as they are, and row i stays the row of
\* option i for the whole session.
C27_CommitWritesOwnOption ==
    [][pc = "loop" =>
          /\ Len(options') = Len(options)
          /\ \A j \in 1..Len(options) :
                /\ Fixed(options'[j]) = Fixed(options[j])
                /\ j # focus + 1 => options'[j] = options[j]
                /\ rows[j].value_widget.kind = options[j].type
                /\ rows[j].name_widget \in {options[j].name, <<"*">> \o options[j].name}
          /\ options' # options =>
                /\ signals' = signals + 1
                /\ options'[focus + 1].modified
                /\ rows'[focus + 1].changed
                /\ get_value(rows'[focus + 1].value_widget).v = options'[focus + 1].value]_vars

\* the second of two rows committed, the first option untouched
C27_SecondRowCommitted ==
    /\ pc = "loop"
    /\ Len(options) = 2
    /\ options[1] = loaded[1]
    /\ options[2].modified
    /\ options[2].value # loaded[2].value
    /\ ~rows[1].changed
    /\ rows[2].changed

\* the names of a sequence of options
Names(opts) == [i \in 1..Len(opts) |-> opts[i].name]

\* C28: the store is sorted once at load and never re-sorted: after any
\* sequence of commits the sequence of option names in the store is the one
\* right after set_options, so the sort invariant holds in every reachable
\* state.
C28_OrderKept ==
    pc # "start" =>
        /\ Names(options) = Names(loaded)
        /\ Names(options) = Names(set_options(input).options)
        /\ \A i \in 1..(Len(options) - 1) : SortKeyLeq(options[i], options[i + 1])

\* a store that set_options reordered, after a commit on each of its rows
C28_CommittedAfterSort ==
    /\ pc = "loop"
    /\ Names(input) # Names(options)
    /\ \A i \in 1..Len(options) : options[i].modified
    /\ \E i \in 1..Len(options) : options[i].value # loaded[i].value

\* C29: each option's modified flag is false right after load and is
\* monotonic: once true it stays true for the rest of the session, and it
\* becomes true only through a commit on the option's own row.
C29_ModifiedMonotonic ==
    [][/\ pc' = "loaded" => \A i \in 1..Len(options') : ~options'[i].modified
       /\ pc # "start" =>
             \A i \in 1..Len(options) :
                /\ options[i].modified => options'[i].modified
                /\ (~options[i].modified /\ options'[i].modified) =>
                      /\ pc = "loop"
                      /\ i = focus + 1
                      /\ signals' = signals + 1
                      /\ rows'[i].changed]_vars

\* an option committed twice, the other one never: one flag set, one not
C29_SetAndKept ==
    /\ pc = "done"
    /\ signals = 2
    /\ Len(options) = 2
    /\ Cardinality(ModifiedIdx) = 1
    /\ ChangedIdx = ModifiedIdx

\* the rows whose editor is in the editing state
Editing == {i \in 1..Len(rows) : rows[i].value_widget.activated}

\* C30: in every reachable state at most one editor is in the editing state
\* and it is the focused row's: an editor in the editing state consumes
\* every key, so the focus cannot move before it is idle again.
C30_OnlyFocusedEdits ==
    /\ Cardinality(Editing) <= 1
    /\ \A i \in Editing : i = focus + 1

\* the second row edited after the focus moved there
C30_SecondRowEditing ==
    /\ pc = "loop"
    /\ focus = 1
    /\ Editing = {2}
    /\ edits = 2

\* the keys the global key handler knows
GlobalKeys == {"q", "Q", "c", "C", "g", "G"}

\* C31: while a string, integer or array editor is in the editing state the
\* keys q, c and g do not reach the global key handler: the editor takes
\* them, so they neither change the exit action nor end the loop; whenever
\* the loop has ended through a global key every editor is idle and its
\* buffer is what the store holds.
C31_GlobalKeysNotWhileEditing ==
    /\ (pc = "loop" /\ Editing # {}) =>
          \A key \in GlobalKeys :
              LET r == keypress(rows[focus + 1].value_widget, key)
              IN r.key = "None" /\ ~r.emit /\ r.w.activated
    /\ ended_by = "key" =>
          /\ Editing = {}
          /\ \A i \in 1..Len(rows) :
                /\ get_value(rows[i].value_widget).ok
                /\ get_value(rows[i].value_widget).v = options[i].value

\* q typed into a string editor and committed, the loop ended by g later
C31_QuitKeyCommitted ==
    /\ pc = "done"
    /\ ended_by = "key"
    /\ exit_action = "only-configure"
    /\ \E i \in 1..Len(options) : options[i].value = StrV(<<"a", "q">>)
    /\ Len(calls) = 1

\* C32 as stated: in every reachable state, for every row whose editor is
\* idle, the value in the store at the row's index is the value the row's
\* editor reports.
C32_IdleEditorShowsStore ==
    \A i \in 1..Len(rows) :
        ~rows[i].value_widget.activated =>
            /\ get_value(rows[i].value_widget).ok
            /\ get_value(rows[i].value_widget).v = options[i].value

\* C33 as stated: in every reachable state row i's changed flag is true if
\* and only if option i's modified flag is true; no step sets one without
\* the other.
C33_ChangedIffModified ==
    \A i \in 1..Len(rows) : rows[i].changed <=> options[i].modified

\* run_exit_action has been entered
Ran == rc # None \/ out # <<>> \/ calls # <<>>

\* C34: the exit action is run exactly once per session and only after the
\* loop has ended: nothing of run_exit_action happens while the loop still
\* processes keys, every end of the loop by q, c, g or an interrupt is
\* followed by run_exit_action, and after it nothing runs again.
C34_RunOnceAfterLoop ==
    /\ pc \in {"start", "loaded", "loop", "exited"} => ~Ran /\ return_code = None
    /\ pc = "exited" => ended_by # "none" /\ ENABLED RunExitAction
    /\ (ended_by # "none" /\ pc # "exited") => pc \in {"done", "crashed"}
    /\ (ended_by # "none" /\ pc = "done") => rc # None
    /\ (ended_by # "none" /\ pc = "crashed") => out # <<>>
    /\ Ran => ended_by # "none"
    /\ pc \in {"done", "crashed"} => ~ENABLED Next

\* the loop ended by an interrupt after a commit and the exit action ran
C34_RanAfterInterrupt ==
    /\ pc = "done"
    /\ ended_by = "interrupt"
    /\ signals > 0
    /\ out = <<Msg("Ignoring changes", 1)>>
    /\ rc = 0

====
